---- MODULE Spec2Model ----
\* Order gateway of connector-sterling: the reconnecting control-channel client
\* (connector/ws_client.py, WSClient), the idempotency store
\* (connector/session_manager.py, SessionManager) and the order dispatcher
\* (connector/connector/sterling_com.py, SterlingCOM.place_order), which the
\* client calls on a worker thread and the REST facade (connector/rest_api.py)
\* calls on its own threads.
EXTENDS Integers, Sequences, FiniteSets, TLC

\* ---------------------------------------------------------------- bounds
\* Idempotency keys the callers may supply: 1..NumKeys.
NumKeys == 1
\* Backend submit calls that return in one behaviour; the n-th hands out order id n.
MaxSubmits == 2
\* Outbound messages admitted per epoch after the registration.
MaxWire == 1
\* Event sends scheduled on the I/O loop and not yet run.
MaxPending == 1
\* The connection fails (an attempt, a registration, a transport error) while
\* the backoff is at most this many seconds.
MaxFailBackoff == 1

\* ------------------------------------------------------------ vocabulary
\* Python's None: an absent idempotencyKey, an absent table row, a result
\* without an order id, self.ws before the first connection.
None == 0
\* The two callers of place_order: the client's executor thread
\* (run_in_executor) and a thread of the REST facade.
WS == 0
REST == 1
\* The transport object websockets.connect yields, as held in self.ws.
Transport == 1
\* self._backoff at construction and after a reset, in seconds.
InitialBackoff == 1
\* self._max_backoff, in seconds.
_max_backoff == 60
\* Event-loop threads a behaviour may start.
MaxThreads == 3
\* Delays are kept in milliseconds.
Secs(n) == n * 1000
\* SessionManager.session_id before set_session (None), and the id line 50
\* of the client falls back to.
NoSession == ""
DefaultSession == "sterling-session"
\* An empty account list, and the account lists the backend may report.
NoAccounts == {}
AccountLists == {{"ACC1"}}

Keys == 1..NumKeys
Callers == {WS, REST}

\* An inbound order: its idempotencyKey (None when absent) and whether it
\* carries the four required fields account, symbol, side, qty.
Orders == [key : {None} \cup Keys, valid : BOOLEAN]

\* What the vendor probe found at construction.
BackendCfgs == {"nopywin32", "none", "wrapper", "native", "both"}

\* Status strings a backend result may carry: "submitted" (also the default
\* when the result carries none), "error", and "filled" for any other string.
BackendStatuses == {"submitted", "error", "filled"}

\* Event types built by EventHandler.
Events == {"tradeUpdate", "orderUpdate"}

VARIABLES
  cfg,          \* outcome of the COM probe, fixed for the behaviour
  idempotency,  \* table idempotency of the sqlite file: key -> result (None: no row)
  ws,           \* WSClient.ws: None, or Transport (the newest transport)
  conn,         \* newest transport: "none", "open", "closed_ok", "closed_err"
  wire,         \* messages written to the newest transport, kept while it is open
  pc,           \* where the connect_loop task is suspended
  ready,        \* _send(event) calls scheduled on the loop, oldest first
  backoff,      \* WSClient._backoff, in milliseconds
  stopping,     \* WSClient._stopping
  evfail,       \* "failed schedule event" was logged for an event of this live epoch
  session_id,   \* SessionManager.session_id
  accounts,     \* SessionManager.accounts
  _accounts,    \* SterlingCOM._accounts: the list get_accounts read last
  dpc,          \* per caller: position inside place_order
  dorder,       \* per caller: the order being dispatched
  dres,         \* per caller: outcome of the last backend submit call
  dret,         \* per caller: the dict place_order returned
  dcalls,       \* per caller: backend submit calls made by this dispatch
  draised,      \* per caller: a backend submit call of this dispatch raised
  executed,     \* per key: backend submits that returned a non-error result
  nextId,       \* order id the backend hands out next
  ksent,        \* per SterlingConnector operation and key: calls that submitted and returned no error
  kret,         \* the dict the last SterlingConnector operation returned
  _running,     \* SterlingCOM._running
  _event_thread, \* SterlingCOM._event_thread: None, or the number of the thread started last
  alive,        \* the event-loop threads that have not exited
  stopper       \* the caller of stop(): "idle", or "joining" inside join(timeout=5)

dvars == <<dpc, dorder, dres, dret, dcalls, draised>>
loopvars == <<backoff, stopping>>
sessvars == <<session_id, accounts, _accounts>>
kvars == <<ksent, kret>>
pumpvars == <<_running, _event_thread, alive, stopper>>
wsvars == <<ws, conn, wire, pc, ready, backoff, stopping, evfail,
            session_id, accounts, _accounts>>
vars == <<cfg, idempotency, ws, conn, wire, pc, ready, backoff, stopping,
          evfail, session_id, accounts, _accounts,
          dpc, dorder, dres, dret, dcalls, draised, executed, nextId,
          ksent, kret, _running, _event_thread, alive, stopper>>

\* ------------------------------------------------------- SessionManager
\* A lookup that never finds the row.
is_idempotent_miss(key) == None

\* SELECT result FROM idempotency WHERE key=? ; None when there is no row.
is_idempotent(key) == idempotency[key]

\* INSERT OR REPLACE INTO idempotency VALUES (key, result, now); commit.
store_idempotent(table, key, result) == [table EXCEPT ![key] = result]

\* ------------------------------------------------------------ SterlingCOM
HAS_PYWIN32 == cfg # "nopywin32"
\* self._wrapper is not None and has SubmitOrder.
hasWrapper == cfg \in {"wrapper", "both"}
\* self._control is not None or self._order_progid is not None.
hasNative == cfg \in {"native", "both"}

NoOrder == [key |-> None, valid |-> FALSE]
NoRes == [kind |-> "none", status |-> "", id |-> None]
NoRet == [status |-> "", details |-> "", clientOrderId |-> None, line |-> 0]

\* The dict a return statement of place_order builds; line is the source
\* line of that return statement.
Result(status, details, id, line) ==
  [status |-> status, details |-> details, clientOrderId |-> id, line |-> line]

\* Lines 319-421 up to the submit call: the native path is entered when a
\* control or an order ProgID exists, else "no COM implementation available".
NativeEntry ==
  IF hasNative
    THEN [pc |-> "native", ret |-> NoRet]
    ELSE [pc |-> "returned",
          ret |-> Result("error", "no COM implementation available", None, 421)]

\* An entry that submits without looking at the required fields.
Entry_unvalidated(order) ==
  IF ~HAS_PYWIN32
    THEN [pc |-> "returned",
          ret |-> Result("error", "pywin32 not available", None, 254)]
  ELSE IF order.key # None /\ is_idempotent(order.key) # None
    THEN [pc |-> "returned",
          ret |-> Result("submitted", "idempotent", is_idempotent(order.key), 262)]
  ELSE IF hasWrapper
    THEN [pc |-> "wrapper", ret |-> NoRet]
  ELSE NativeEntry

\* Lines 252-280: pywin32 guard, idempotency check, required fields, and the
\* choice of the submit path.
Entry(order) ==
  IF ~HAS_PYWIN32
    THEN [pc |-> "returned",
          ret |-> Result("error", "pywin32 not available", None, 254)]
  ELSE IF order.key # None /\ is_idempotent(order.key) # None
    THEN [pc |-> "returned",
          ret |-> Result("submitted", "idempotent", is_idempotent(order.key), 262)]
  ELSE IF ~order.valid
    THEN [pc |-> "returned",
          ret |-> Result("error", "missing required field", None, 268)]
  ELSE IF hasWrapper
    THEN [pc |-> "wrapper", ret |-> NoRet]
  ELSE NativeEntry

\* place_order is entered by caller c with order: lines 252-280.
place_order(c, order) ==
  /\ dpc[c] = "idle"
  /\ dpc' = [dpc EXCEPT ![c] = Entry(order).pc]
  /\ dret' = [dret EXCEPT ![c] = Entry(order).ret]
  /\ dorder' = [dorder EXCEPT ![c] = order]
  /\ dres' = [dres EXCEPT ![c] = NoRes]
  /\ dcalls' = [dcalls EXCEPT ![c] = 0]
  /\ draised' = [draised EXCEPT ![c] = FALSE]
  /\ UNCHANGED <<cfg, idempotency, executed, nextId>>
  /\ UNCHANGED kvars
  /\ UNCHANGED pumpvars
  /\ UNCHANGED sessvars

\* Line 252: place_order is entered with a payload that is not a dict (the
\* "order" member of the frame is a string, a list or a number): order.items()
\* raises AttributeError outside every try of place_order.
place_order_raises(c) ==
  /\ dpc[c] = "idle"
  /\ dpc' = [dpc EXCEPT ![c] = "raised"]
  /\ UNCHANGED <<dorder, dres, dret, dcalls, draised>>
  /\ UNCHANGED <<cfg, idempotency, executed, nextId>>
  /\ UNCHANGED kvars
  /\ UNCHANGED pumpvars
  /\ UNCHANGED sessvars

\* What a submit call that does not raise may return: a result with a status
\* and with or without an order id; the wrapper may also return a string that
\* is not the JSON of an object ("garbage").
Returned(kinds) ==
  {[kind |-> "result", status |-> s, id |-> i] :
      s \in BackendStatuses, i \in {None, nextId}}
  \cup {[kind |-> k, status |-> "", id |-> nextId] : k \in kinds}

\* The backend accepted the order: the call returned and did not say error.
Accepted(r) == r.kind = "result" /\ r.status # "error"

\* The backend submit call of caller c returns r.
SubmitReturns(c, r, next) ==
  /\ dpc' = [dpc EXCEPT ![c] = next]
  /\ dres' = [dres EXCEPT ![c] = r]
  /\ dcalls' = [dcalls EXCEPT ![c] = @ + 1]
  /\ nextId' = nextId + 1
  /\ executed' = IF Accepted(r) /\ dorder[c].key # None
                 THEN [executed EXCEPT ![dorder[c].key] = @ + 1]
                 ELSE executed
  /\ UNCHANGED <<dorder, dret, draised>>

\* Line 296: self._wrapper.SubmitOrder(json.dumps(payload)) returns.
wrapper_SubmitOrder(c) ==
  /\ dpc[c] = "wrapper"
  /\ nextId <= MaxSubmits
  /\ \E r \in Returned({"garbage"}) : SubmitReturns(c, r, "wrapper_ret")
  /\ UNCHANGED <<cfg, idempotency>>
  /\ UNCHANGED kvars
  /\ UNCHANGED pumpvars
  /\ UNCHANGED wsvars

\* Lines 296, 316-321: SubmitOrder raises; the exception is logged and the
\* dispatch falls back to the native path.
wrapper_SubmitOrder_raises(c) ==
  /\ dpc[c] = "wrapper"
  /\ dpc' = [dpc EXCEPT ![c] = NativeEntry.pc]
  /\ dret' = [dret EXCEPT ![c] = NativeEntry.ret]
  /\ dcalls' = [dcalls EXCEPT ![c] = @ + 1]
  /\ draised' = [draised EXCEPT ![c] = TRUE]
  /\ dres' = [dres EXCEPT ![c] = [NoRes EXCEPT !.kind = "raise"]]
  /\ UNCHANGED <<cfg, idempotency, executed, nextId, dorder>>
  /\ UNCHANGED kvars
  /\ UNCHANGED pumpvars
  /\ UNCHANGED wsvars

\* Lines 310-311 and 412-413: if idem and client_id: store_idempotent.
StoreIfId(table, key, id) ==
  IF key # None /\ id # None THEN store_idempotent(table, key, id) ELSE table

\* Lines 298-315: the wrapper's result is interpreted, stored and returned;
\* a result that cannot be interpreted is returned raw as submitted.
wrapper_result(c) ==
  /\ dpc[c] = "wrapper_ret"
  /\ LET r == dres[c] IN
       IF r.kind = "garbage"
         THEN /\ dret' = [dret EXCEPT ![c] = Result("submitted", "raw", r.id, 315)]
              /\ UNCHANGED idempotency
         ELSE /\ idempotency' = StoreIfId(idempotency, dorder[c].key, r.id)
              /\ dret' = [dret EXCEPT ![c] = Result(r.status, "backend", r.id, 312)]
  /\ dpc' = [dpc EXCEPT ![c] = "returned"]
  /\ dres' = [dres EXCEPT ![c] = [NoRes EXCEPT !.kind = dres[c].kind]]
  /\ UNCHANGED <<cfg, executed, nextId, dorder, dcalls, draised>>
  /\ UNCHANGED kvars
  /\ UNCHANGED pumpvars
  /\ UNCHANGED wsvars

\* Lines 374-384: the native submit call returns.
native_submit(c) ==
  /\ dpc[c] = "native"
  /\ nextId <= MaxSubmits
  /\ \E r \in Returned({}) : SubmitReturns(c, r, "native_ret")
  /\ UNCHANGED <<cfg, idempotency>>
  /\ UNCHANGED kvars
  /\ UNCHANGED pumpvars
  /\ UNCHANGED wsvars

\* The except branch reporting the failed submit as submitted.
native_submit_raises_as_submitted(c) ==
  /\ dpc[c] = "native"
  /\ dpc' = [dpc EXCEPT ![c] = "returned"]
  /\ dret' = [dret EXCEPT ![c] = Result("submitted", "exception", None, 418)]
  /\ dres' = [dres EXCEPT ![c] = [NoRes EXCEPT !.kind = "raise"]]
  /\ dcalls' = [dcalls EXCEPT ![c] = @ + 1]
  /\ draised' = [draised EXCEPT ![c] = TRUE]
  /\ UNCHANGED <<cfg, idempotency, executed, nextId, dorder>>
  /\ UNCHANGED kvars
  /\ UNCHANGED pumpvars
  /\ UNCHANGED wsvars

\* Lines 374-384, 416-418: the native submit call raises: status error.
native_submit_raises(c) ==
  /\ dpc[c] = "native"
  /\ dpc' = [dpc EXCEPT ![c] = "returned"]
  /\ dret' = [dret EXCEPT ![c] = Result("error", "exception", None, 418)]
  /\ dcalls' = [dcalls EXCEPT ![c] = @ + 1]
  /\ draised' = [draised EXCEPT ![c] = TRUE]
  /\ dres' = [dres EXCEPT ![c] = [NoRes EXCEPT !.kind = "raise"]]
  /\ UNCHANGED <<cfg, idempotency, executed, nextId, dorder>>
  /\ UNCHANGED kvars
  /\ UNCHANGED pumpvars
  /\ UNCHANGED wsvars

\* Lines 390-415: the native result is interpreted, stored and returned.
native_result(c) ==
  /\ dpc[c] = "native_ret"
  /\ idempotency' = StoreIfId(idempotency, dorder[c].key, dres[c].id)
  /\ dret' = [dret EXCEPT ![c] = Result(dres[c].status, "backend", dres[c].id, 415)]
  /\ dpc' = [dpc EXCEPT ![c] = "returned"]
  /\ dres' = [dres EXCEPT ![c] = [NoRes EXCEPT !.kind = dres[c].kind]]
  /\ UNCHANGED <<cfg, executed, nextId, dorder, dcalls, draised>>
  /\ UNCHANGED kvars
  /\ UNCHANGED pumpvars
  /\ UNCHANGED wsvars

\* Lines 310-311, 412-413: store_idempotent is called for this result.
Stores(c) ==
  dres[c].kind = "result" /\ dorder[c].key # None /\ dres[c].id # None

\* Lines 310-315: store_idempotent raises (sqlite error) inside the inner try
\* of the wrapper path; the inner except returns the raw result as submitted.
wrapper_store_raises(c) ==
  /\ dpc[c] = "wrapper_ret"
  /\ Stores(c)
  /\ dret' = [dret EXCEPT ![c] = Result("submitted", "raw", dres[c].id, 315)]
  /\ dpc' = [dpc EXCEPT ![c] = "returned"]
  /\ dres' = [dres EXCEPT ![c] = [NoRes EXCEPT !.kind = dres[c].kind]]
  /\ UNCHANGED <<cfg, idempotency, executed, nextId, dorder, dcalls, draised>>
  /\ UNCHANGED kvars
  /\ UNCHANGED pumpvars
  /\ UNCHANGED wsvars

\* Lines 412-418: store_idempotent raises inside the try of the native path;
\* the except returns status error with the exception text.
native_store_raises(c) ==
  /\ dpc[c] = "native_ret"
  /\ Stores(c)
  /\ dret' = [dret EXCEPT ![c] = Result("error", "exception", None, 418)]
  /\ dpc' = [dpc EXCEPT ![c] = "returned"]
  /\ dres' = [dres EXCEPT ![c] = [NoRes EXCEPT !.kind = dres[c].kind]]
  /\ UNCHANGED <<cfg, idempotency, executed, nextId, dorder, dcalls, draised>>
  /\ UNCHANGED kvars
  /\ UNCHANGED pumpvars
  /\ UNCHANGED wsvars

\* The caller is done with the dict place_order returned.
Release(c) ==
  /\ dpc' = [dpc EXCEPT ![c] = "idle"]
  /\ dorder' = [dorder EXCEPT ![c] = NoOrder]
  /\ dres' = [dres EXCEPT ![c] = NoRes]
  /\ dret' = [dret EXCEPT ![c] = NoRet]
  /\ dcalls' = [dcalls EXCEPT ![c] = 0]
  /\ draised' = [draised EXCEPT ![c] = FALSE]

\* ---------------------------------------------------------------- REST
\* POST /api/place-order: sterling.place_order(payload) on a facade thread.
rest_place_order(c, order) ==
  /\ c = REST
  /\ place_order(c, order)
  /\ UNCHANGED wsvars

\* The facade turns the dict into the HTTP response.
rest_return(c) ==
  /\ c = REST
  /\ dpc[c] = "returned"
  /\ Release(c)
  /\ UNCHANGED <<cfg, idempotency, executed, nextId>>
  /\ UNCHANGED kvars
  /\ UNCHANGED pumpvars
  /\ UNCHANGED sessvars
  /\ UNCHANGED wsvars

\* ------------------------------------------------ SterlingCOM event pump
\* Lines 115-125: start() is a no-op without pywin32 and while _running is
\* set; else it sets _running and starts a new event-loop thread.
start ==
  /\ stopper = "idle"
  /\ IF ~HAS_PYWIN32 \/ _running
       THEN UNCHANGED <<_running, _event_thread, alive>>
       ELSE /\ _event_thread < MaxThreads
            /\ _running' = TRUE
            /\ _event_thread' = _event_thread + 1
            /\ alive' = alive \cup {_event_thread + 1}
  /\ UNCHANGED stopper
  /\ UNCHANGED <<cfg, idempotency, executed, nextId>>
  /\ UNCHANGED kvars
  /\ UNCHANGED wsvars
  /\ UNCHANGED dvars

\* Lines 127-131: stop() clears _running and, when a thread was ever
\* started, joins the one started last.
stop ==
  /\ stopper = "idle"
  /\ _running' = FALSE
  /\ stopper' = IF _event_thread # None THEN "joining" ELSE "idle"
  /\ UNCHANGED <<_event_thread, alive>>
  /\ UNCHANGED <<cfg, idempotency, executed, nextId>>
  /\ UNCHANGED kvars
  /\ UNCHANGED wsvars
  /\ UNCHANGED dvars

\* Lines 131-132: join(timeout=5) returns: the thread has exited, or the
\* five seconds are over and it has not (timedOut); stop() returns.
stop_joined(timedOut) ==
  /\ stopper = "joining"
  /\ timedOut <=> (_event_thread \in alive)
  /\ stopper' = "idle"
  /\ UNCHANGED <<_running, _event_thread, alive>>
  /\ UNCHANGED <<cfg, idempotency, executed, nextId>>
  /\ UNCHANGED kvars
  /\ UNCHANGED wsvars
  /\ UNCHANGED dvars

\* Lines 145-152: an event-loop thread finds _running cleared at the top of
\* its loop and ends.
pump_exits(t) ==
  /\ t \in alive
  /\ ~_running
  /\ alive' = alive \ {t}
  /\ UNCHANGED <<_running, _event_thread, stopper>>
  /\ UNCHANGED <<cfg, idempotency, executed, nextId>>
  /\ UNCHANGED kvars
  /\ UNCHANGED wsvars
  /\ UNCHANGED dvars

\* Lines 148-152: PumpWaitingMessages raises; the thread logs the error and
\* ends, _running stays as it is.
pump_fails(t) ==
  /\ t \in alive
  /\ alive' = alive \ {t}
  /\ UNCHANGED <<_running, _event_thread, stopper>>
  /\ UNCHANGED <<cfg, idempotency, executed, nextId>>
  /\ UNCHANGED kvars
  /\ UNCHANGED wsvars
  /\ UNCHANGED dvars

\* ----------------------------------------------------- SterlingConnector
\* The submission operations of SterlingConnector.
Kinds == {"market", "limit", "stop_limit"}

NoKret == [op |-> "", status |-> "", details |-> "", orderId |-> None]

\* What Sendmarket, Sendlimit or Sendstoplimit may do: return "oid;status",
\* return something that does not split into two parts at ";", or raise.
Sent ==
  {[kind |-> "result", status |-> s, id |-> nextId] : s \in BackendStatuses}
  \cup {[kind |-> k, status |-> "", id |-> nextId] : k \in {"garbage", "raise"}}

\* Lines 116-120, 144-148: _send_market and _send_limit return the stored
\* order id when the order has a key with a (non-empty) record;
\* _send_stop_limit (lines 172-173) has no such lookup.
Replays(op, order) ==
  /\ op \in {"market", "limit"}
  /\ order.key # None
  /\ is_idempotent(order.key) # None

\* Lines 133-134, 162-163: _send_market and _send_limit store the order id
\* under the key; _send_stop_limit (lines 186-187) stores nothing.
StoresKey(op, order) == op \in {"market", "limit"} /\ order.key # None

\* Lines 115-138, 143-167, 172-190: one submission operation, run to its
\* return on the thread asyncio.to_thread gave it. A missing field raises
\* KeyError inside the try before the backend is called; a backend result
\* that does not split into "oid;status" raises after it; both return error.
Send(op, order) ==
  IF Replays(op, order)
    THEN /\ kret' = [op |-> op, status |-> "submitted", details |-> "idempotent",
                     orderId |-> is_idempotent(order.key)]
         /\ UNCHANGED <<idempotency, executed, nextId, ksent>>
  ELSE IF ~order.valid
    THEN /\ kret' = [op |-> op, status |-> "error", details |-> "KeyError",
                     orderId |-> None]
         /\ UNCHANGED <<idempotency, executed, nextId, ksent>>
  ELSE
    /\ nextId <= MaxSubmits
    /\ \E r \in Sent :
         /\ nextId' = nextId + 1
         /\ executed' = IF Accepted(r) /\ order.key # None
                          THEN [executed EXCEPT ![order.key] = @ + 1]
                          ELSE executed
         /\ IF r.kind = "result"
              THEN /\ idempotency' = IF StoresKey(op, order)
                                       THEN store_idempotent(idempotency, order.key, r.id)
                                       ELSE idempotency
                   /\ kret' = [op |-> op, status |-> r.status, details |-> "",
                               orderId |-> r.id]
                   /\ ksent' = IF order.key # None /\ r.status # "error"
                                 THEN [ksent EXCEPT ![op][order.key] = @ + 1]
                                 ELSE ksent
              ELSE /\ kret' = [op |-> op, status |-> "error", details |-> r.kind,
                               orderId |-> None]
                   /\ UNCHANGED <<idempotency, ksent>>

\* Lines 115-138.
_send_market(order) ==
  /\ Send("market", order)
  /\ UNCHANGED cfg
  /\ UNCHANGED wsvars
  /\ UNCHANGED dvars
  /\ UNCHANGED pumpvars

\* Lines 143-167.
_send_limit(order) ==
  /\ Send("limit", order)
  /\ UNCHANGED cfg
  /\ UNCHANGED wsvars
  /\ UNCHANGED dvars
  /\ UNCHANGED pumpvars

\* Lines 172-190.
_send_stop_limit(order) ==
  /\ Send("stop_limit", order)
  /\ UNCHANGED cfg
  /\ UNCHANGED wsvars
  /\ UNCHANGED dvars
  /\ UNCHANGED pumpvars

\* ------------------------------------------------------------- WSClient
\* An outbound JSON object; the fields a message type does not have are blank.
Msg(type, key, status, details, id) ==
  [type |-> type, idempotencyKey |-> key, status |-> status,
   details |-> details, clientOrderId |-> id,
   sessionId |-> NoSession, accounts |-> NoAccounts]

\* Line 53: {"type":"sessionRegister","sessionId":...,"accounts":...}.
sessionRegister(sid, accts) ==
  [Msg("sessionRegister", None, "", "", None)
     EXCEPT !.sessionId = sid, !.accounts = accts]

\* A health reply that names no session.
health_blank == Msg("health", None, "", "", None)

\* Line 74: the health reply carries the session id and accounts stored in
\* the SessionManager.
health ==
  [Msg("health", None, "", "", None)
     EXCEPT !.sessionId = session_id, !.accounts = accounts]

\* An orderAck that leaves the key out.
orderAck_unkeyed(order, result) ==
  Msg("orderAck", None, result.status, result.details, result.clientOrderId)

\* Line 69: the orderAck built from the order and the dict place_order returned.
orderAck(order, result) ==
  Msg("orderAck", order.key, result.status, result.details, result.clientOrderId)

\* A loop that runs scheduled coroutines in the middle of lines 48-53.
LoopNeverBusy == FALSE

\* The loop thread is between two awaits of the connect_loop task (lines
\* 48-53 run without awaiting, the account listing of line 51 included), so
\* no other coroutine of the loop can run.
LoopBusy == pc \in {"registering", "listing"}

\* Lines 78-85: _send(obj) drops obj when self.ws is None, writes it to the
\* transport self.ws refers to, and swallows the error of a closed transport.
\* The value is the wire after the call.
_send(obj) ==
  IF ws = None THEN wire
  ELSE IF conn = "open" THEN Append(wire, obj)
  ELSE wire

\* The receive loop of an epoch is running or waits for its dispatch: Active.
Active == pc \in {"recv", "dispatch"}
Closed == conn \in {"closed_ok", "closed_err"}
\* Active on a transport that is open.
Live == Active /\ conn = "open"

\* Outbound messages of this epoch written, scheduled or owed.
Outstanding ==
  Len(wire) + Len(ready) + (IF pc = "dispatch" THEN 1 ELSE 0)

\* The client admits another placeOrder frame or backend event.
Admits == Outstanding <= MaxWire

\* The client admits another frame that is answered at once (ping,
\* healthCheck) or not at all: what is scheduled does not count.
AdmitsReply == Len(wire) <= MaxWire

\* Line 99: run_coroutine_threadsafe(self._send(event), loop) puts a callback
\* at the end of the loop's queue; live tells that the event was delivered
\* while the epoch was live.
Scheduled(ev) == [type |-> ev, live |-> Live, passed |-> FALSE]

\* A loop that resumes the task however long a scheduled callback has waited.
CanResumeAlways == TRUE

\* Line 99 and the asyncio loop: callbacks run in the order they were queued,
\* and the scheduled _send starts two iterations later at most. The
\* connect_loop task is resumed by callbacks of the same queue, so it is
\* resumed at most once before a _send that was scheduled earlier runs.
CanResume == \A i \in DOMAIN ready : ~ready[i].passed

\* The sends scheduled so far have been passed by a resumption of the task.
Overtaken(q) == [i \in DOMAIN q |-> [q[i] EXCEPT !.passed = TRUE]]

\* The connect_loop task is resumed from an await.
Resumes == CanResume /\ ready' = Overtaken(ready)

Min(a, b) == IF a <= b THEN a ELSE b

\* Line 31: random.uniform(0, min(5, self._backoff)); the two ends of the range.
Jitters(b) == {0, Min(Secs(5), b)}

\* The cap left out of line 32.
_next_backoff_uncapped(b, jitter) == ((b + jitter) * 3) \div 2

\* Lines 30-34: b = self._backoff + jitter; self._backoff = min(self._max_backoff,
\* b * 1.5); the value is both the new self._backoff and the delay returned.
_next_backoff(b, jitter) == Min(Secs(_max_backoff), ((b + jitter) * 3) \div 2)

\* Line 28: asyncio.sleep(self._next_backoff()).
Sleeps == \E jitter \in Jitters(backoff) : backoff' = _next_backoff(backoff, jitter)

\* The connection may fail in this state.
FailureExplored == backoff <= Secs(MaxFailBackoff)

\* Lines 20-23, 36-47: connect_loop calls _run, which awaits websockets.connect.
connect_loop ==
  /\ pc = "idle"
  /\ ~stopping
  /\ pc' = "connecting"
  /\ UNCHANGED <<ws, conn, wire, ready>>
  /\ UNCHANGED loopvars
  /\ UNCHANGED evfail
  /\ UNCHANGED <<cfg, idempotency, executed, nextId>>
  /\ UNCHANGED kvars
  /\ UNCHANGED pumpvars
  /\ UNCHANGED sessvars
  /\ UNCHANGED dvars

\* Line 21: the while condition is false; connect_loop returns.
connect_loop_exits ==
  /\ pc = "idle"
  /\ stopping
  /\ pc' = "done"
  /\ UNCHANGED <<ws, conn, wire, ready>>
  /\ UNCHANGED loopvars
  /\ UNCHANGED evfail
  /\ UNCHANGED <<cfg, idempotency, executed, nextId>>
  /\ UNCHANGED kvars
  /\ UNCHANGED pumpvars
  /\ UNCHANGED sessvars
  /\ UNCHANGED dvars

\* Lines 87-90: close() sets _stopping and, when self.ws is set, closes that
\* transport with a close handshake (a no-op on a transport already closed).
close ==
  /\ ~stopping
  /\ stopping' = TRUE
  /\ IF ws # None /\ conn = "open"
       THEN conn' = "closed_ok" /\ wire' = <<>> /\ evfail' = FALSE
       ELSE UNCHANGED <<conn, wire, evfail>>
  /\ UNCHANGED <<ws, pc, ready, backoff>>
  /\ UNCHANGED <<cfg, idempotency, executed, nextId>>
  /\ UNCHANGED kvars
  /\ UNCHANGED pumpvars
  /\ UNCHANGED sessvars
  /\ UNCHANGED dvars

\* Lines 47, 26-28: websockets.connect raises; connect_loop sleeps.
connect_fails ==
  /\ pc = "connecting"
  /\ Resumes
  /\ pc' = "sleep"
  /\ Sleeps
  /\ UNCHANGED <<ws, conn, wire, stopping>>
  /\ UNCHANGED evfail
  /\ UNCHANGED <<cfg, idempotency, executed, nextId>>
  /\ UNCHANGED kvars
  /\ UNCHANGED pumpvars
  /\ UNCHANGED sessvars
  /\ UNCHANGED dvars

\* connect_fails where a failure is explored.
connect_fails_explored == FailureExplored /\ connect_fails

\* The receive loop entered without sending the registration.
connected_skips_register ==
  /\ pc = "connecting"
  /\ Resumes
  /\ ws' = Transport
  /\ conn' = "open"
  /\ wire' = <<>>
  /\ evfail' = FALSE
  /\ pc' = "recv"
  /\ UNCHANGED loopvars
  /\ UNCHANGED <<cfg, idempotency, executed, nextId>>
  /\ UNCHANGED kvars
  /\ UNCHANGED pumpvars
  /\ UNCHANGED sessvars
  /\ UNCHANGED dvars

\* A connection that resets the reconnect delay as soon as it is established.
connected_resets ==
  /\ pc = "connecting"
  /\ Resumes
  /\ ws' = Transport
  /\ conn' = "open"
  /\ wire' = <<>>
  /\ evfail' = FALSE
  /\ pc' = "registering"
  /\ backoff' = Secs(InitialBackoff)
  /\ UNCHANGED stopping
  /\ UNCHANGED <<cfg, idempotency, executed, nextId>>
  /\ UNCHANGED kvars
  /\ UNCHANGED pumpvars
  /\ UNCHANGED sessvars
  /\ UNCHANGED dvars

\* Lines 47-48: the connection is established and self.ws = ws.
connected ==
  /\ pc = "connecting"
  /\ Resumes
  /\ ws' = Transport
  /\ conn' = "open"
  /\ wire' = <<>>
  /\ evfail' = FALSE
  /\ pc' = "registering"
  /\ UNCHANGED loopvars
  /\ UNCHANGED <<cfg, idempotency, executed, nextId>>
  /\ UNCHANGED kvars
  /\ UNCHANGED pumpvars
  /\ UNCHANGED sessvars
  /\ UNCHANGED dvars

\* A session id made anew once the accounts are known.
SessionId_renewed ==
  IF accounts = NoAccounts THEN DefaultSession ELSE "sterling-session-2"

\* Line 50: self.session_manager.session_id or "sterling-session".
SessionId ==
  IF session_id # NoSession THEN session_id ELSE DefaultSession

\* Lines 52-55: set_session stores the id and the accounts, sessionRegister
\* is sent with ws.send, which raises on a closed transport; then the
\* receive loop is entered.
Registers_with(accts) ==
  /\ session_id' = SessionId
  /\ accounts' = accts
  /\ IF conn = "open"
       THEN /\ wire' = Append(wire, sessionRegister(SessionId, accts))
            /\ pc' = "recv"
            /\ UNCHANGED backoff
       ELSE /\ UNCHANGED wire
            /\ pc' = "sleep"
            /\ Sleeps
  /\ UNCHANGED <<ws, conn, ready, stopping, evfail>>
  /\ UNCHANGED <<cfg, idempotency, executed, nextId>>
  /\ UNCHANGED kvars
  /\ UNCHANGED pumpvars
  /\ UNCHANGED dvars

\* Lines 50-55 when the SessionManager holds accounts: line 51 takes them
\* and does not ask the backend.
register ==
  /\ pc = "registering"
  /\ accounts # NoAccounts
  /\ Registers_with(accounts)
  /\ UNCHANGED _accounts

\* Line 51 when the SessionManager holds no accounts: the task calls
\* self.sterling.get_accounts() and the loop's thread is inside that call.
list_accounts ==
  /\ pc = "registering"
  /\ accounts = NoAccounts
  /\ pc' = "listing"
  /\ UNCHANGED <<ws, conn, wire, ready, evfail>>
  /\ UNCHANGED loopvars
  /\ UNCHANGED <<cfg, idempotency, executed, nextId>>
  /\ UNCHANGED kvars
  /\ UNCHANGED pumpvars
  /\ UNCHANGED sessvars
  /\ UNCHANGED dvars

\* sterling_com.py lines 157-202: what get_accounts may return. Without
\* pywin32 or without a COM object it returns the cached list; else the
\* list the backend reports (ok), or the cached list when the call raises.
get_accounts ==
  IF ~HAS_PYWIN32 \/ ~(hasWrapper \/ hasNative)
    THEN {[ok |-> FALSE, accounts |-> _accounts]}
    ELSE {[ok |-> TRUE, accounts |-> a] : a \in {NoAccounts} \cup AccountLists}
         \cup {[ok |-> FALSE, accounts |-> _accounts]}

\* Lines 51-55: get_accounts returns r (a list read from the backend is
\* cached by _set_accounts); the registration goes on with that list.
register_listed(r) ==
  /\ pc = "listing"
  /\ r \in get_accounts
  /\ _accounts' = IF r.ok THEN r.accounts ELSE _accounts
  /\ Registers_with(r.accounts)

\* The listing of a host that has a COM object reports accounts.
ListingReports(r) ==
  (HAS_PYWIN32 /\ (hasWrapper \/ hasNative)) => (r.ok /\ r.accounts # NoAccounts)

\* register_listed where the backend reports accounts.
register_listed_reports(r) ==
  /\ ListingReports(r)
  /\ register_listed(r)

\* The remote side or the network ends the newest transport: a close
\* handshake ("closed_ok") or a transport error ("closed_err"). What was
\* written to it is no longer followed.
drop(how) ==
  /\ conn = "open"
  /\ conn' = how
  /\ wire' = <<>>
  /\ evfail' = FALSE
  /\ UNCHANGED <<ws, pc, ready>>
  /\ UNCHANGED loopvars
  /\ UNCHANGED <<cfg, idempotency, executed, nextId>>
  /\ UNCHANGED kvars
  /\ UNCHANGED pumpvars
  /\ UNCHANGED sessvars
  /\ UNCHANGED dvars

\* drop where a failure is explored: a close handshake inside the receive
\* loop is no failure.
drop_explored(how) ==
  /\ (how = "closed_err" \/ pc \in {"registering", "listing"}) => FailureExplored
  /\ drop(how)

\* A _run without the async with block: the receive loop is left while the
\* transport is still open and nothing closes it.
run_ends_open ==
  /\ pc = "recv"
  /\ Resumes
  /\ IF conn = "closed_err"
       THEN /\ pc' = "sleep"
            /\ Sleeps
       ELSE /\ pc' = "idle"
            /\ backoff' = Secs(InitialBackoff)
  /\ UNCHANGED <<ws, conn, wire, stopping>>
  /\ UNCHANGED evfail
  /\ UNCHANGED <<cfg, idempotency, executed, nextId>>
  /\ UNCHANGED kvars
  /\ UNCHANGED pumpvars
  /\ UNCHANGED sessvars
  /\ UNCHANGED dvars

\* A connect_loop without the except branch: the error ends the task.
run_ends_unhandled ==
  /\ pc = "recv"
  /\ conn \in {"closed_ok", "closed_err"}
  /\ Resumes
  /\ IF conn = "closed_ok"
       THEN /\ pc' = "idle"
            /\ backoff' = Secs(InitialBackoff)
       ELSE /\ pc' = "done"
            /\ UNCHANGED backoff
  /\ UNCHANGED <<ws, conn, wire, stopping>>
  /\ UNCHANGED evfail
  /\ UNCHANGED <<cfg, idempotency, executed, nextId>>
  /\ UNCHANGED kvars
  /\ UNCHANGED pumpvars
  /\ UNCHANGED sessvars
  /\ UNCHANGED dvars

\* Lines 55, 24-28: the receive loop meets the closed transport. After a
\* close handshake the iteration ends and _run returns; after an error it
\* raises and connect_loop sleeps.
run_ends ==
  /\ pc = "recv"
  /\ conn \in {"closed_ok", "closed_err"}
  /\ Resumes
  /\ IF conn = "closed_ok"
       THEN /\ pc' = "idle"
            /\ backoff' = Secs(InitialBackoff)
       ELSE /\ pc' = "sleep"
            /\ Sleeps
  /\ UNCHANGED <<ws, conn, wire, stopping>>
  /\ UNCHANGED evfail
  /\ UNCHANGED <<cfg, idempotency, executed, nextId>>
  /\ UNCHANGED kvars
  /\ UNCHANGED pumpvars
  /\ UNCHANGED sessvars
  /\ UNCHANGED dvars

\* Line 28: the backoff sleep ends.
wake ==
  /\ pc = "sleep"
  /\ Resumes
  /\ pc' = "idle"
  /\ UNCHANGED <<ws, conn, wire>>
  /\ UNCHANGED loopvars
  /\ UNCHANGED evfail
  /\ UNCHANGED <<cfg, idempotency, executed, nextId>>
  /\ UNCHANGED kvars
  /\ UNCHANGED pumpvars
  /\ UNCHANGED sessvars
  /\ UNCHANGED dvars

\* Lines 64-68: a placeOrder frame is received and place_order is handed to
\* the executor; the task awaits its result.
handle_placeOrder(order) ==
  /\ pc = "recv"
  /\ conn = "open"
  /\ Admits
  /\ Resumes
  /\ place_order(WS, order)
  /\ pc' = "dispatch"
  /\ UNCHANGED <<ws, conn, wire>>
  /\ UNCHANGED loopvars
  /\ UNCHANGED evfail

\* Lines 64-68: a placeOrder frame whose "order" member is not an object is
\* received; place_order is handed to the executor with it.
handle_placeOrder_malformed ==
  /\ pc = "recv"
  /\ conn = "open"
  /\ Admits
  /\ Resumes
  /\ place_order_raises(WS)
  /\ pc' = "dispatch"
  /\ UNCHANGED <<ws, conn, wire>>
  /\ UNCHANGED loopvars
  /\ UNCHANGED evfail

\* A receive loop without the try of lines 56-60: what _handle raises ends
\* _run, and connect_loop sleeps.
handle_raises_ends_epoch ==
  /\ pc = "dispatch"
  /\ dpc[WS] = "raised"
  /\ Resumes
  /\ pc' = "sleep"
  /\ Sleeps
  /\ Release(WS)
  /\ UNCHANGED <<ws, conn, wire, stopping>>
  /\ UNCHANGED evfail
  /\ UNCHANGED <<cfg, idempotency, executed, nextId>>
  /\ UNCHANGED kvars
  /\ UNCHANGED pumpvars
  /\ UNCHANGED sessvars

\* Lines 68, 57-60: the executor's future raises what place_order raised;
\* _handle propagates it and the receive loop logs it and reads the next
\* frame. Nothing is sent.
handle_raises ==
  /\ pc = "dispatch"
  /\ dpc[WS] = "raised"
  /\ Resumes
  /\ pc' = "recv"
  /\ Release(WS)
  /\ UNCHANGED <<ws, conn, wire>>
  /\ UNCHANGED loopvars
  /\ UNCHANGED evfail
  /\ UNCHANGED <<cfg, idempotency, executed, nextId>>
  /\ UNCHANGED kvars
  /\ UNCHANGED pumpvars
  /\ UNCHANGED sessvars

\* Lines 69-70: the executor's result arrives; the orderAck is sent.
handle_ack ==
  /\ pc = "dispatch"
  /\ dpc[WS] = "returned"
  /\ Resumes
  /\ wire' = _send(orderAck(dorder[WS], dret[WS]))
  /\ pc' = "recv"
  /\ Release(WS)
  /\ UNCHANGED <<ws, conn, evfail>>
  /\ UNCHANGED loopvars
  /\ UNCHANGED <<cfg, idempotency, executed, nextId>>
  /\ UNCHANGED kvars
  /\ UNCHANGED pumpvars
  /\ UNCHANGED sessvars

\* Lines 57-60: a frame that is not JSON (json.loads raises) or is JSON but
\* not an object (msg.get raises): the exception is logged and the receive
\* loop reads the next frame.
handle_invalid(frame) ==
  /\ pc = "recv"
  /\ conn = "open"
  /\ AdmitsReply
  /\ Resumes
  /\ UNCHANGED <<ws, conn, wire, pc, evfail>>
  /\ UNCHANGED loopvars
  /\ UNCHANGED <<cfg, idempotency, executed, nextId>>
  /\ UNCHANGED kvars
  /\ UNCHANGED pumpvars
  /\ UNCHANGED sessvars
  /\ UNCHANGED dvars

\* A handler that answers a type it does not know with an error message.
handle_other_replies(mtype) ==
  /\ pc = "recv"
  /\ conn = "open"
  /\ AdmitsReply
  /\ Resumes
  /\ wire' = CASE mtype = "ping" -> _send(Msg("pong", None, "", "", None))
                [] mtype = "healthCheck" -> _send(Msg("health", None, "", "", None))
                [] OTHER -> _send(Msg("error", None, "error", "", None))
  /\ UNCHANGED <<ws, conn, pc, evfail>>
  /\ UNCHANGED loopvars
  /\ UNCHANGED <<cfg, idempotency, executed, nextId>>
  /\ UNCHANGED kvars
  /\ UNCHANGED pumpvars
  /\ UNCHANGED sessvars
  /\ UNCHANGED dvars

\* A handler that takes a ping as the sign of a healthy link and resets the
\* reconnect delay.
handle_other_resets(mtype) ==
  /\ pc = "recv"
  /\ conn = "open"
  /\ AdmitsReply
  /\ Resumes
  /\ wire' = CASE mtype = "ping" -> _send(Msg("pong", None, "", "", None))
                [] mtype = "healthCheck" -> _send(health)
                [] OTHER -> wire
  /\ backoff' = IF mtype = "ping" THEN Secs(InitialBackoff) ELSE backoff
  /\ UNCHANGED <<ws, conn, pc, evfail, stopping>>
  /\ UNCHANGED <<cfg, idempotency, executed, nextId>>
  /\ UNCHANGED kvars
  /\ UNCHANGED pumpvars
  /\ UNCHANGED sessvars
  /\ UNCHANGED dvars

\* Lines 71-76: ping, healthCheck and any other type.
handle_other(mtype) ==
  /\ pc = "recv"
  /\ conn = "open"
  /\ AdmitsReply
  /\ Resumes
  /\ wire' = CASE mtype = "ping" -> _send(Msg("pong", None, "", "", None))
                [] mtype = "healthCheck" -> _send(health)
                [] OTHER -> wire
  /\ UNCHANGED <<ws, conn, pc, evfail>>
  /\ UNCHANGED loopvars
  /\ UNCHANGED <<cfg, idempotency, executed, nextId>>
  /\ UNCHANGED kvars
  /\ UNCHANGED pumpvars
  /\ UNCHANGED sessvars
  /\ UNCHANGED dvars

\* session_manager.py lines 38-44 and ws_client.py lines 92-101: the backend
\* delivers an event to the registered callback. It is dropped when self.ws
\* is None; asyncio.get_event_loop() raises on a thread that has no loop
\* (onLoop = FALSE), the failure is logged and the event is dropped; else
\* _send(event) is scheduled. A callback on the loop's own thread (onLoop)
\* runs between two steps of the loop's tasks, never in the middle of one.
on_sterling_event(ev, onLoop) ==
  /\ Len(ready) < MaxPending
  /\ Admits
  /\ onLoop => ~LoopBusy
  /\ IF ws = None
       THEN UNCHANGED <<ready, evfail>>
       ELSE IF onLoop
         THEN ready' = Append(ready, Scheduled(ev)) /\ UNCHANGED evfail
         ELSE evfail' = (evfail \/ Live) /\ UNCHANGED ready
  /\ UNCHANGED <<ws, conn, wire, pc>>
  /\ UNCHANGED loopvars
  /\ UNCHANGED <<cfg, idempotency, executed, nextId>>
  /\ UNCHANGED kvars
  /\ UNCHANGED pumpvars
  /\ UNCHANGED sessvars
  /\ UNCHANGED dvars

\* The loop runs the oldest scheduled _send(event).
run_scheduled ==
  /\ ready # <<>>
  /\ ~LoopBusy
  /\ wire' = _send(Msg(Head(ready).type, None, "", "", None))
  /\ ready' = Tail(ready)
  /\ UNCHANGED <<ws, conn, pc, evfail>>
  /\ UNCHANGED loopvars
  /\ UNCHANGED <<cfg, idempotency, executed, nextId>>
  /\ UNCHANGED kvars
  /\ UNCHANGED pumpvars
  /\ UNCHANGED sessvars
  /\ UNCHANGED dvars

\* ------------------------------------------------------------- process
\* A restart over a store that kept its records in memory only.
crash_wipes ==
  /\ ws' = None
  /\ conn' = "none"
  /\ wire' = <<>>
  /\ evfail' = FALSE
  /\ pc' = "idle"
  /\ ready' = <<>>
  /\ backoff' = Secs(InitialBackoff)
  /\ stopping' = FALSE
  /\ session_id' = NoSession
  /\ accounts' = NoAccounts
  /\ _accounts' = NoAccounts
  /\ dpc' = [c \in Callers |-> "idle"]
  /\ dorder' = [c \in Callers |-> NoOrder]
  /\ dres' = [c \in Callers |-> NoRes]
  /\ dret' = [c \in Callers |-> NoRet]
  /\ dcalls' = [c \in Callers |-> 0]
  /\ draised' = [c \in Callers |-> FALSE]
  /\ idempotency' = [k \in Keys |-> None]
  /\ UNCHANGED <<cfg, executed, nextId>>
  /\ UNCHANGED kvars
  /\ _running' = FALSE
  /\ _event_thread' = None
  /\ alive' = {}
  /\ stopper' = "idle"

\* The process dies and is started again: every object is rebuilt
\* (SessionManager.__init__, WSClient.__init__), the sqlite file is kept.
crash ==
  /\ ws' = None
  /\ conn' = "none"
  /\ wire' = <<>>
  /\ evfail' = FALSE
  /\ pc' = "idle"
  /\ ready' = <<>>
  /\ backoff' = Secs(InitialBackoff)
  /\ stopping' = FALSE
  /\ session_id' = NoSession
  /\ accounts' = NoAccounts
  /\ _accounts' = NoAccounts
  /\ dpc' = [c \in Callers |-> "idle"]
  /\ dorder' = [c \in Callers |-> NoOrder]
  /\ dres' = [c \in Callers |-> NoRes]
  /\ dret' = [c \in Callers |-> NoRet]
  /\ dcalls' = [c \in Callers |-> 0]
  /\ draised' = [c \in Callers |-> FALSE]
  /\ UNCHANGED <<cfg, idempotency, executed, nextId>>
  /\ UNCHANGED kvars
  /\ _running' = FALSE
  /\ _event_thread' = None
  /\ alive' = {}
  /\ stopper' = "idle"

Init ==
  /\ cfg \in BackendCfgs
  /\ idempotency = [k \in Keys |-> None]
  /\ ws = None
  /\ conn = "none"
  /\ wire = <<>>
  /\ evfail = FALSE
  /\ pc = "idle"
  /\ ready = <<>>
  /\ backoff = Secs(InitialBackoff)
  /\ stopping = FALSE
  /\ session_id = NoSession
  /\ accounts = NoAccounts
  /\ _accounts = NoAccounts
  /\ ksent = [op \in Kinds |-> [k \in Keys |-> 0]]
  /\ kret = NoKret
  /\ _running = FALSE
  /\ _event_thread = None
  /\ alive = {}
  /\ stopper = "idle"
  /\ dpc = [c \in Callers |-> "idle"]
  /\ dorder = [c \in Callers |-> NoOrder]
  /\ dres = [c \in Callers |-> NoRes]
  /\ dret = [c \in Callers |-> NoRet]
  /\ dcalls = [c \in Callers |-> 0]
  /\ draised = [c \in Callers |-> FALSE]
  /\ executed = [k \in Keys |-> 0]
  /\ nextId = 1

Next ==
  \/ \E c \in Callers : wrapper_SubmitOrder(c)
  \/ \E c \in Callers : wrapper_SubmitOrder_raises(c)
  \/ \E c \in Callers : wrapper_result(c)
  \/ \E c \in Callers : native_submit(c)
  \/ \E c \in Callers : native_submit_raises(c)
  \/ \E c \in Callers : native_result(c)
  \/ \E c \in Callers : wrapper_store_raises(c)
  \/ \E c \in Callers : native_store_raises(c)
  \/ connect_loop
  \/ connect_fails_explored
  \/ connected
  \/ register
  \/ list_accounts
  \/ \E r \in get_accounts : register_listed_reports(r)
  \/ \E how \in {"closed_ok", "closed_err"} : drop_explored(how)
  \/ run_ends
  \/ wake
  \/ \E o \in Orders : handle_placeOrder(o)
  \/ handle_placeOrder_malformed
  \/ handle_raises
  \/ handle_ack
  \/ \E t \in {"ping", "healthCheck", "foo"} : handle_other(t)
  \/ \E frame \in {"not JSON", "not an object"} : handle_invalid(frame)
  \/ \E ev \in Events, onLoop \in BOOLEAN : on_sterling_event(ev, onLoop)
  \/ run_scheduled
  \/ crash

\* The gateway alone: the client, its executor thread, the backend, restarts.
Spec == Init /\ [][Next]_vars

\* The gateway on a host where the probe found both the vendor wrapper and a
\* native control, so that every path of the dispatcher can be taken.
InitBoth ==
  /\ Init
  /\ cfg = "both"

SpecBoth == InitBoth /\ [][Next]_vars

\* The gateway with the REST facade placing orders on its own thread.
NextRest ==
  \/ Next
  \/ \E c \in Callers, o \in Orders : rest_place_order(c, o)
  \/ \E c \in Callers : rest_return(c)

SpecRest == Init /\ [][NextRest]_vars

\* The gateway with a shutdown request: some coroutine of the loop calls close().
NextStop ==
  \/ Next
  \/ close
  \/ connect_loop_exits

SpecStop == Init /\ [][NextStop]_vars

\* The asyncio loop runs every scheduled callback and resumes the
\* connect_loop task whenever it can go on (a closed transport is noticed, a
\* timer fires, an executor future completes),
\* the executor thread runs, and a backend call or a store comes back, with a
\* value or an exception.
Fairness ==
  /\ WF_vars(connect_loop)
  /\ WF_vars(connect_loop_exits)
  /\ WF_vars(register)
  /\ WF_vars(list_accounts)
  /\ WF_vars(\E r \in get_accounts : register_listed_reports(r))
  /\ WF_vars(run_ends)
  /\ WF_vars(wake)
  /\ WF_vars(handle_ack)
  /\ WF_vars(handle_raises)
  /\ WF_vars(run_scheduled)
  /\ WF_vars(wrapper_SubmitOrder(WS) \/ wrapper_SubmitOrder_raises(WS))
  /\ WF_vars(wrapper_result(WS) \/ wrapper_store_raises(WS))
  /\ WF_vars(native_submit(WS) \/ native_submit_raises(WS))
  /\ WF_vars(native_result(WS) \/ native_store_raises(WS))

\* The gateway with a shutdown request, under that scheduling.
SpecLive == Init /\ [][NextStop]_vars /\ Fairness

\* The client against a server that cannot be reached: every connection
\* attempt fails, whatever the backoff has grown to.
NextUnreachable ==
  \/ connect_loop
  \/ connect_fails
  \/ wake
  \/ crash

SpecUnreachable == Init /\ [][NextUnreachable]_vars

\* The client on a quiet channel: no frame arrives and the backend reports
\* no event; connections are made and lost, whatever the backoff has grown to.
NextQuiet ==
  \/ connect_loop
  \/ connect_fails
  \/ connected
  \/ register
  \/ list_accounts
  \/ \E r \in get_accounts : register_listed(r)
  \/ \E how \in {"closed_ok", "closed_err"} : drop(how)
  \/ run_ends
  \/ wake
  \/ crash

SpecQuiet == Init /\ [][NextQuiet]_vars

\* The client on a channel that carries placeOrder commands only, well
\* formed or not: no other
\* frame arrives and the backend reports no event; orders are dispatched,
\* connections are lost and the process is restarted.
NextOrders ==
  \/ \E c \in Callers : wrapper_SubmitOrder(c)
  \/ \E c \in Callers : wrapper_SubmitOrder_raises(c)
  \/ \E c \in Callers : wrapper_result(c)
  \/ \E c \in Callers : native_submit(c)
  \/ \E c \in Callers : native_submit_raises(c)
  \/ \E c \in Callers : native_result(c)
  \/ \E c \in Callers : wrapper_store_raises(c)
  \/ \E c \in Callers : native_store_raises(c)
  \/ connect_loop
  \/ connect_fails_explored
  \/ connected
  \/ register
  \/ list_accounts
  \/ \E r \in get_accounts : register_listed_reports(r)
  \/ \E how \in {"closed_ok", "closed_err"} : drop_explored(how)
  \/ run_ends
  \/ wake
  \/ \E o \in Orders : handle_placeOrder(o)
  \/ handle_placeOrder_malformed
  \/ handle_raises
  \/ handle_ack
  \/ crash

SpecOrders == Init /\ [][NextOrders]_vars

\* The client on a channel that carries no placeOrder command: pings, health
\* checks, frames of unknown type and frames that are not valid JSON objects
\* arrive, and the backend reports events.
NextFrames ==
  \/ connect_loop
  \/ connect_fails_explored
  \/ connected
  \/ register
  \/ list_accounts
  \/ \E r \in get_accounts : register_listed_reports(r)
  \/ \E how \in {"closed_ok", "closed_err"} : drop_explored(how)
  \/ run_ends
  \/ wake
  \/ \E t \in {"ping", "healthCheck", "foo"} : handle_other(t)
  \/ \E frame \in {"not JSON", "not an object"} : handle_invalid(frame)
  \/ \E ev \in Events, onLoop \in BOOLEAN : on_sterling_event(ev, onLoop)
  \/ run_scheduled
  \/ crash

SpecFrames == Init /\ [][NextFrames]_vars

\* The same channel with a shutdown request.
NextFramesStop ==
  \/ NextFrames
  \/ close
  \/ connect_loop_exits

SpecFramesStop == Init /\ [][NextFramesStop]_vars

\* The clr connector alone: its three submission operations are called one
\* after the other, and the process is restarted.
NextConnector ==
  \/ \E o \in Orders : _send_market(o)
  \/ \E o \in Orders : _send_limit(o)
  \/ \E o \in Orders : _send_stop_limit(o)
  \/ crash

SpecConnector == Init /\ [][NextConnector]_vars

\* The event pump of SterlingCOM alone: start() and stop() are called one
\* after the other, event-loop threads end, and the process is restarted.
NextPump ==
  \/ start
  \/ stop
  \/ \E timedOut \in BOOLEAN : stop_joined(timedOut)
  \/ \E t \in 1..MaxThreads : pump_exits(t)
  \/ \E t \in 1..MaxThreads : pump_fails(t)
  \/ crash

SpecPump == Init /\ [][NextPump]_vars

\* ------------------------------------------------------------- claims
InFlight(c) == dpc[c] # "idle"
Enters(c) == dpc[c] = "idle" /\ dpc'[c] # "idle"
Acks == {wire[i] : i \in {j \in 1..Len(wire) : wire[j].type = "orderAck"}}
Registers == {i \in 1..Len(wire) : wire[i].type = "sessionRegister"}

\* C1: a dispatch that carries key K and is entered while a record for K is
\* stored returns at once with the stored result id and makes no backend
\* submit call, however many dispatches came before it.
C1_SequentialIdempotence ==
  [][\A c \in Callers :
       (Enters(c) /\ dorder'[c].key # None /\ idempotency[dorder'[c].key] # None)
       => /\ dpc'[c] = "returned"
          /\ dret'[c].clientOrderId = idempotency[dorder'[c].key]
          /\ dret'[c].status # "error"
          /\ dcalls'[c] = 0
          /\ nextId' = nextId
          /\ executed' = executed]_vars

\* A dispatch was answered from the stored record of its key.
C1_Witness ==
  \E c \in Callers :
    /\ dpc[c] = "returned"
    /\ dret[c].line = 262
    /\ dorder[c].key # None
    /\ dret[c].clientOrderId = idempotency[dorder[c].key]

\* C2: of two dispatches with the same key that are in progress at the same
\* time, at most one has reached the backend submit call, and when both have
\* returned a result that is not an error the two carry the same result id.
C2_ConcurrentIdempotence ==
  \A c1, c2 \in Callers :
    (c1 # c2 /\ InFlight(c1) /\ InFlight(c2)
       /\ dorder[c1].key # None /\ dorder[c1].key = dorder[c2].key)
    => /\ ~(dcalls[c1] > 0 /\ dcalls[c2] > 0)
       /\ (dpc[c1] = "returned" /\ dpc[c2] = "returned"
             /\ dret[c1].status # "error" /\ dret[c2].status # "error")
          => dret[c1].clientOrderId = dret[c2].clientOrderId

\* C3: over dispatches and process restarts, the backend executes a submit
\* for key K at most once.
C3_AtMostOnceAcrossRestarts ==
  \A k \in Keys : executed[k] <= 1

\* C4: the first message written to the transport of an epoch is
\* sessionRegister: no orderAck, pong, health reply or relayed event is
\* written before it.
C4_HandshakeFirst ==
  wire # <<>> => wire[1].type = "sessionRegister"

\* A backend event was scheduled for sending while the new connection is
\* still being set up and its registration is not yet written.
C4_Witness ==
  pc = "registering" /\ conn = "open" /\ ready # <<>> /\ wire = <<>>

\* C5: an epoch's transport carries one sessionRegister, never two, it is
\* written before the receive loop runs, and the dispatcher is handed a
\* placeOrder of the channel only inside the receive loop, after it.
C5_OneRegisterBeforeDispatch ==
  /\ Cardinality(Registers) <= 1
  /\ (pc \in {"recv", "dispatch"} /\ conn = "open") => Registers = {1}
  /\ InFlight(WS) => pc = "dispatch"

\* A placeOrder of the channel is with the dispatcher in a registered epoch.
C5_Witness ==
  pc = "dispatch" /\ conn = "open" /\ dpc[WS] \in {"wrapper", "native"}
    /\ Registers = {1}

\* C6: a dispatch answered from an existing record returns status
\* idempotentReplay, and so does the orderAck sent for it.
C6_ReplayStatus ==
  /\ \A c \in Callers :
       (dpc[c] = "returned" /\ dret[c].line = 262)
       => dret[c].status = "idempotentReplay"
  /\ \A a \in Acks : a.details = "idempotent" => a.status = "idempotentReplay"

C8_RecordImpliesSuccess ==
  \A k \in Keys : idempotency[k] # None => executed[k] > 0

\* C9: a stored record never changes: a second store for its key leaves the
\* first result in place.
C9_RecordImmutable ==
  [][\A k \in Keys : idempotency[k] # None => idempotency'[k] = idempotency[k]]_vars

\* C10: every orderAck on the wire with status submitted and a key has a
\* stored record for that key.
C10_PersistBeforeAck ==
  \A a \in Acks :
    (a.status = "submitted" /\ a.idempotencyKey # None)
    => idempotency[a.idempotencyKey] # None

\* The backend submit of caller c returned a result and the store of its
\* idempotency record raised.
StoreFailed(c) ==
  /\ dpc[c] = "returned"
  /\ dres[c].kind = "result"
  /\ dret[c].line \in {315, 418}

\* C11: a dispatch whose backend submit succeeded and whose idempotency
\* record could not be stored returns status error, never submitted.
C11_StoreFailureIsError ==
  \A c \in Callers : StoreFailed(c) => dret[c].status = "error"

\* C12: every placeOrder frame the receive loop hands to the dispatcher is
\* answered: when the dispatch is over and the receive loop goes on, an
\* orderAck has been written to the open transport.
C12_EveryPlaceOrderAcked ==
  [][(pc = "dispatch" /\ pc' = "recv" /\ conn = "open")
       => /\ Len(wire') = Len(wire) + 1
          /\ wire'[Len(wire')].type = "orderAck"
          /\ wire'[Len(wire')].status # ""]_vars

C14_NoConnectionAfterClose ==
  stopping => conn # "open"

\* C15: each delay returned by _next_backoff is at least the delay returned
\* before it (since the last reset) and at most _max_backoff.
C15_BackoffBounds ==
  [][(pc # "sleep" /\ pc' = "sleep")
       => (backoff <= backoff' /\ backoff' <= Secs(_max_backoff))]_vars

\* The client sleeps with the delay at the maximum.
C15_Witness ==
  pc = "sleep" /\ backoff = Secs(_max_backoff)

\* The delays _next_backoff returns when self._backoff is at its floor.
FloorDelays ==
  {_next_backoff(Secs(InitialBackoff), j) : j \in Jitters(Secs(InitialBackoff))}

\* C16: when an Active epoch ends, by an error or by a close handshake, the
\* backoff is at its floor: the loop goes on at once with self._backoff at the
\* floor, or sleeps for a delay computed from the floor.
C16_ResetAfterActive ==
  [][(pc = "recv" /\ pc' \in {"idle", "sleep"})
       => \/ pc' = "idle" /\ backoff' = Secs(InitialBackoff)
          \/ pc' = "sleep" /\ backoff' \in FloorDelays]_vars

\* C17: when an epoch ends, by an error or by a close of the remote side,
\* connect_loop sleeps for at least the floor before the next attempt.
C17_DelayFloor ==
  [][(pc = "recv" /\ pc' \notin {"recv", "dispatch"} /\ ws' # None)
       => (pc' = "sleep" /\ backoff' >= Secs(InitialBackoff))]_vars

C19_NoCrossEpochDelivery ==
  pc = "registering"
  => /\ \A i \in DOMAIN ready : ~ready[i].live
     /\ dpc[WS] = "idle"

\* The send of an event of an epoch that has ended is still pending while
\* connect_loop makes its next connection attempt.
C19_Witness ==
  /\ pc = "connecting"
  /\ Closed
  /\ ready # <<>>
  /\ Head(ready).live

\* C20: no backend event delivered while the epoch is live is dropped: each
\* is scheduled for sending on the transport of the epoch.
C20_NoEventLoss ==
  Live => ~evfail

C23_BadFrameKeepsEpoch ==
  (ws # None /\ pc \in {"idle", "sleep", "connecting"}) => Closed

\* The receive loop runs on the open connection after a dispatch that
\* returned an error was acknowledged.
C23_Witness ==
  /\ pc = "recv"
  /\ conn = "open"
  /\ \E a \in Acks : a.status = "error"

\* C24: a dispatch whose order lacks a required field and that was not
\* answered from a stored record has returned status error with no result
\* id, and has made no backend submit call (so it has no result to store).
C24_ValidationBeforeBackend ==
  \A c \in Callers :
    (dpc[c] \notin {"idle", "raised"} /\ ~dorder[c].valid /\ dret[c].line # 262)
    => /\ dpc[c] = "returned"
       /\ dret[c].status = "error"
       /\ dret[c].clientOrderId = None
       /\ dcalls[c] = 0
       /\ dres[c] = NoRes

\* A dispatch was refused for a missing field on a host where a backend
\* submit path exists.
C24_Witness ==
  \E c \in Callers :
    /\ dpc[c] = "returned"
    /\ dret[c].line = 268
    /\ hasWrapper \/ hasNative

\* C25: the orderAck written for a placeOrder carries the idempotencyKey of
\* that command, and None when the command carried none.
C25_AckKeyEcho ==
  [][(pc = "dispatch" /\ dpc[WS] = "returned" /\ pc' = "recv"
        /\ Len(wire') = Len(wire) + 1)
       => /\ wire'[Len(wire')].type = "orderAck"
          /\ wire'[Len(wire')].idempotencyKey = dorder[WS].key]_vars

\* An orderAck that carries a key is on the wire.
C25_Witness ==
  \E a \in Acks : a.idempotencyKey # None

\* C26: the status of every dispatch result and of every orderAck on the
\* wire is one of submitted, error, idempotentReplay.
C26_StatusClosedSet ==
  /\ \A c \in Callers :
       dpc[c] = "returned"
       => dret[c].status \in {"submitted", "error", "idempotentReplay"}
  /\ \A a \in Acks : a.status \in {"submitted", "error", "idempotentReplay"}

\* C27: no Execution Backend call made for the control-channel client runs
\* on the task that connects, sends and receives: that task is never inside
\* the account listing (the order submission runs on the worker pool).
C27_NoBackendCallOnIoTask ==
  pc # "listing"

\* C28: the sessionRegister of every epoch, a reconnect's included, is
\* written after the backend's account listing was queried for that epoch.
C28_RegistrationQueriesAccounts ==
  [][(pc \in {"registering", "listing"} /\ pc' = "recv")
       => pc = "listing"]_vars

\* C29: every sessionRegister carries the same session id: the id stored by
\* an earlier registration of this process, which is "sterling-session".
C29_StableSessionId ==
  [][(pc \in {"registering", "listing"} /\ pc' = "recv")
       => /\ wire'[Len(wire')].type = "sessionRegister"
          /\ wire'[Len(wire')].sessionId = DefaultSession
          /\ session_id # NoSession
               => wire'[Len(wire')].sessionId = session_id]_vars

\* An earlier epoch of this process has registered and a new connection is
\* open and about to register.
C29_Witness ==
  pc = "registering" /\ conn = "open" /\ session_id = DefaultSession
    /\ accounts # NoAccounts

\* C30: when store_idempotent(K, r) has returned, the record of K is r, and
\* a crash followed by a restart over the same database leaves every record
\* as it was, so is_idempotent(K) of the new process returns r.
C30_DurableIdempotencyWrite ==
  [][/\ \A c \in Callers :
          (/\ dpc[c] \in {"wrapper_ret", "native_ret"}
           /\ Stores(c)
           /\ dpc'[c] = "returned"
           /\ dret'[c].line \in {312, 415})
          => is_idempotent(dorder[c].key)' = dres[c].id
     /\ crash => \A k \in Keys : is_idempotent(k)' = is_idempotent(k)]_vars

\* A process that has just been restarted finds a record written before the
\* crash.
C30_Witness ==
  ws = None /\ pc = "idle" /\ \E k \in Keys : is_idempotent(k) # None

\* C31: a session written with set_session is still the session after a
\* restart of the process: a restart leaves the session id and the accounts
\* of the SessionManager as they were.
C31_DurableSession ==
  [][crash => (session_id' = session_id /\ accounts' = accounts)]_vars

\* C32: the client holds at most one open transport: a connection is opened
\* only when the transport of the previous epoch, if there was one, is
\* closed, and the client never waits to connect or sleeps while a transport
\* of its own is open.
C32_OneConnectionAtATime ==
  [][/\ (pc = "connecting" /\ pc' = "registering")
          => (conn # "open" /\ conn' = "open")
     /\ (pc' \in {"idle", "sleep", "connecting"} /\ ws' # None)
          => conn' \in {"closed_ok", "closed_err"}]_vars

\* A later epoch of the same process has opened its transport.
C32_Witness ==
  pc = "listing" /\ conn = "open" /\ session_id = DefaultSession

\* C33: handling a ping writes one pong to the transport and nothing else,
\* and leaves the session, the idempotency records, the backoff value, the
\* dispatcher and the backend as they were.
C33_PingNoSideEffect ==
  [][handle_other("ping")
       => /\ wire' = Append(wire, Msg("pong", None, "", "", None))
          /\ UNCHANGED <<session_id, accounts, _accounts>>
          /\ UNCHANGED <<idempotency, executed, nextId>>
          /\ UNCHANGED <<backoff, stopping>>
          /\ UNCHANGED dvars]_vars

\* A pong was written in an epoch that was opened after a failure, with the
\* reconnect delay above its floor.
C33_Witness ==
  /\ pc = "recv"
  /\ conn = "open"
  /\ backoff > Secs(InitialBackoff)
  /\ \E i \in DOMAIN wire : wire[i].type = "pong"

\* C34: every health reply on the transport carries the session id and the
\* accounts the SessionManager holds, and these are the ones the
\* sessionRegister of the same epoch carried.
C34_HealthReflectsSession ==
  \A i \in DOMAIN wire :
    wire[i].type = "health"
      => /\ wire[i].sessionId = session_id
         /\ wire[i].accounts = accounts
         /\ wire[1].type = "sessionRegister"
         /\ wire[i].sessionId = wire[1].sessionId
         /\ wire[i].accounts = wire[1].accounts

\* A health reply was written in an epoch registered with accounts.
C34_Witness ==
  /\ conn = "open"
  /\ \E i \in DOMAIN wire : wire[i].type = "health" /\ wire[i].accounts # NoAccounts

C36_IdempotencyEveryKind ==
  \A op \in Kinds : \A k \in Keys : ksent[op][k] <= 1

\* C37: while the backend submit of a placeOrder is in flight on the worker
\* pool and the connection is open, a ping that arrives can be handled: the
\* handler that answers it with pong does not wait for the dispatch to return.
C37_PingDuringDispatch ==
  (/\ pc = "dispatch"
   /\ conn = "open"
   /\ dpc[WS] \in {"wrapper", "native"}
   /\ ready = <<>>
   /\ Len(wire) <= MaxWire)
  => ENABLED handle_other("ping")

\* C38: one dispatch calls a backend submit operation at most once, counting
\* the wrapper's SubmitOrder and the native submit together, a call that
\* raised included.
C38_OneSubmitPerDispatch ==
  \A c \in Callers : dcalls[c] <= 1

\* C39: within one client, _backoff changes in two kinds of step only: it is
\* set to 1 when _run returns without raising, and it grows when _run raised
\* and connect_loop goes to sleep; it is set to 1 whenever _run returns, and
\* frame handling, sends and close() leave it as it is.
C39_BackoffChanges ==
  [][~crash
       => /\ (backoff' # backoff)
               => \/ /\ pc = "recv" /\ pc' = "idle"
                     /\ backoff' = Secs(InitialBackoff)
                  \/ /\ pc \in {"connecting", "registering", "listing", "recv"}
                     /\ pc' = "sleep"
                     /\ backoff' > backoff
          /\ (pc = "recv" /\ pc' = "idle") => backoff' = Secs(InitialBackoff)
          /\ (pc' = pc \/ stopping' # stopping) => backoff' = backoff]_vars

\* A health reply was sent in an epoch opened after a failure: the reconnect
\* delay is still above its floor.
C39_Witness ==
  /\ pc = "recv"
  /\ conn = "open"
  /\ backoff > Secs(InitialBackoff)
  /\ \E i \in DOMAIN wire : wire[i].type = "health"

\* C40: whatever start() and stop() calls were made one after the other, at
\* most one event-loop thread has not exited.
C40_SinglePumpThread ==
  Cardinality(alive) <= 1
====
